---- MODULE Spec2Model ----
(***************************************************************************)
(* Model of carbleurator's src/main.rs: the error taxonomy, gamepad        *)
(* bring-up, get_central, the bring-up sequence of main                    *)
(* and the event relay loop.  The gamepad driver (gilrs), the BLE stack    *)
(* (btleplug) and the signaling module are collaborators: every answer     *)
(* they can give is chosen nondeterministically, and every call main       *)
(* makes on them is recorded.                                              *)
(***************************************************************************)
EXTENDS Integers, Sequences, FiniteSets, TLC

\* ---- bounds of the model -------------------------------------------------
MaxGamepads == 1
MaxAdapters == 2
MaxPeripherals == 1
MaxEvents == 2

\* ---- values --------------------------------------------------------------
\* the targets for which the program exists.  The cfg attributes name linux,
\* macos and windows, but the get_central selected for windows and macos
\* (lines 50-57) is rejected by the compiler (its tail is a
\* Result<&Adapter, CarbleuratorError> where Result<BleAdapter, anyhow::Error>
\* is declared), so only the linux build runs.
Platforms == {"linux"}

\* an error value: its kind, the cause it carries and its context message
MkError(kind, cause, context) == [kind |-> kind, cause |-> cause, context |-> context]
NoError == MkError("None", "", "")

\* a Result: st is "pending" (call not made), "ok" or "err"
Pending == [st |-> "pending", val |-> <<>>, err |-> NoError]
Ok(v) == [st |-> "ok", val |-> v, err |-> NoError]
Err(e) == [st |-> "err", val |-> <<>>, err |-> e]

\* gilrs::Error: NotImplemented(dummy), InvalidAxisToBtn, Other(cause)
DriverCauses == {"udev failure", "io error"}
GilrsErrors ==
    {MkError("NotImplemented", "", ""), MkError("InvalidAxisToBtn", "", "")}
        \cup {MkError("Other", c, "") : c \in DriverCauses}

\* btleplug errors, as raw causes
BleCauses == {"PermissionDenied", "NotSupported"}

\* the name and power info of a gamepad; no property depends on them, so one
\* value stands for all
GamepadInfos == {[name |-> "Gamepad", power |-> "Wired"]}

SeqsUpTo(S, n) == UNION {[1..k -> S] : k \in 0..n}

\* what Gilrs::new() can answer
GilrsNewResults ==
    {Ok(gs) : gs \in SeqsUpTo(GamepadInfos, MaxGamepads)}
        \cup {Err(e) : e \in GilrsErrors}

\* what BleManager::new() can answer
ManagerNewResults == {Ok(<<"manager">>)} \cup {Err(MkError("Ble", c, "")) : c \in BleCauses}

\* what manager.adapters() can answer: adapters are <<"hci", i>>
AdapterList(n) == [i \in 1..n |-> <<"hci", i>>]
AdaptersResults ==
    {Ok(AdapterList(n)) : n \in 0..MaxAdapters}
        \cup {Err(MkError("Ble", c, "")) : c \in BleCauses}

\* what adapter.connect() can answer for adapter a
ConnectResults(a) == {Ok(a)} \cup {Err(MkError("Ble", c, "")) : c \in BleCauses}

\* the answers the adapters of a list can give to connect(), one per adapter
ConnectAnswers(list) ==
    LET as == {list[i] : i \in 1..Len(list)} IN
    {f \in [as -> UNION {ConnectResults(a) : a \in as}] :
         \A a \in as : f[a] \in ConnectResults(a)}

\* what central.start_scan() can answer
ScanResults == {Ok(<<>>)} \cup {Err(MkError("Ble", c, "")) : c \in BleCauses}

\* PeripheralProperties: local_name is an Option (<<>> is None, <<s>> is Some(s))
PeripheralRecords ==
    {[local_name |-> <<>>, address |-> "AA:01"],
     [local_name |-> <<"car">>, address |-> "BB:02"],
     [local_name |-> <<"">>, address |-> "CC:03"]}

EventKinds == {"ButtonPressed", "ButtonReleased"}

\* ---- pure functions --------------------------------------------------------

\* a From that swaps the two unit kinds and drops the cause of Other
FromWrongKind(err) ==
    IF err.kind = "NotImplemented" THEN MkError("UsbDeviceInitializationError", "", "")
    ELSE IF err.kind = "InvalidAxisToBtn" THEN MkError("UsbNotSupportedError", "", "")
    ELSE MkError("UsbInitializationError", "", "")

\* impl From<gilrs::Error> for CarbleuratorError
From(err) ==
    IF err.kind = "NotImplemented" THEN MkError("UsbNotSupportedError", "", "")
    ELSE IF err.kind = "InvalidAxisToBtn" THEN MkError("UsbDeviceInitializationError", "", "")
    ELSE MkError("UsbInitializationError", err.cause, "")

\* failure's e.compat(): the cause wrapped as a std error, kind not reclassified
Compat(err) == MkError("Compat", err.cause, "")

\* anyhow's with_context: the same error with a context message on top
WithContext(err, msg) == MkError(err.kind, err.cause, msg)

\* an unwrap that renders a missing name as a placeholder
UnwrapOrUnknown(opt) == IF opt = <<>> THEN "(unknown)" ELSE opt[1]

\* Option::unwrap_or_default on an Option<String>
UnwrapOrDefault(opt) == IF opt = <<>> THEN "" ELSE opt[1]

\* an init_gamepads without the device-count check
InitGamepadsNoCountCheck(new) ==
    IF new.st = "err"
    THEN [res |-> Err(From(new.err)), calls |-> <<"Gilrs::new">>]
    ELSE [res |-> Ok(new.val), calls |-> <<"Gilrs::new">>]

\* init_gamepads, given the answer of Gilrs::new(): the result and the
\* collaborator calls made
init_gamepads(new) ==
    IF new.st = "err"
    THEN [res |-> Err(From(new.err)), calls |-> <<"Gilrs::new">>]
    ELSE IF Len(new.val) = 0
    THEN [res |-> Err(MkError("MissingGamepad", "", "")),
          calls |-> <<"Gilrs::new", "gamepads.count">>]
    ELSE [res |-> Ok(new.val), calls |-> <<"Gilrs::new", "gamepads.count">>]

\* a linux get_central that reports every failure as MissingBleAdapter
GetCentralLinuxAllMissing(listed, connect) ==
    IF listed.st = "err" \/ Len(listed.val) = 0
    THEN [res |-> Err(MkError("MissingBleAdapter", "", "")), calls |-> <<"adapters">>,
          selected |-> <<>>, answer |-> Pending]
    ELSE LET a == listed.val[1] IN
         [res |-> IF connect[a].st = "err"
                  THEN Err(MkError("MissingBleAdapter", "", "")) ELSE connect[a],
          calls |-> <<"adapters", "connect">>,
          selected |-> <<a>>, answer |-> connect[a]]

\* a linux get_central that falls back to the second adapter when the
\* connect of the first fails
GetCentralLinuxFallback(listed, connect) ==
    IF listed.st = "err"
    THEN [res |-> Err(Compat(listed.err)), calls |-> <<"adapters">>,
          selected |-> <<>>, answer |-> Pending]
    ELSE IF Len(listed.val) = 0
    THEN [res |-> Err(MkError("MissingBleAdapter", "", "")), calls |-> <<"adapters">>,
          selected |-> <<>>, answer |-> Pending]
    ELSE LET a == listed.val[1] IN
         IF connect[a].st = "err" /\ Len(listed.val) >= 2
         THEN LET b == listed.val[2] IN
              [res |-> IF connect[b].st = "err" THEN Err(Compat(connect[b].err))
                       ELSE connect[b],
               calls |-> <<"adapters", "connect", "connect">>,
               selected |-> <<a, b>>, answer |-> connect[b]]
         ELSE [res |-> IF connect[a].st = "err" THEN Err(Compat(connect[a].err))
                       ELSE connect[a],
               calls |-> <<"adapters", "connect">>,
               selected |-> <<a>>, answer |-> connect[a]]

\* get_central for linux: the result, the collaborator calls made, the
\* adapters taken from the list and the answer connect gave; connect[a] is the
\* answer adapter a gives to connect() (consulted only for the adapter connect
\* is called on)
get_central_linux(listed, connect) ==
    IF listed.st = "err"
    THEN [res |-> Err(Compat(listed.err)), calls |-> <<"adapters">>,
          selected |-> <<>>, answer |-> Pending]
    ELSE IF Len(listed.val) = 0
    THEN [res |-> Err(MkError("MissingBleAdapter", "", "")), calls |-> <<"adapters">>,
          selected |-> <<>>, answer |-> Pending]
    ELSE LET a == listed.val[1] IN
         [res |-> IF connect[a].st = "err" THEN Err(Compat(connect[a].err))
                  ELSE connect[a],
          calls |-> <<"adapters", "connect">>,
          selected |-> <<a>>, answer |-> connect[a]]

\* the line printed for a peripheral: "{} ({})" of name-or-default and address
RenderPeripheral(p) == <<"peripheral", UnwrapOrDefault(p.local_name), p.address>>

\* the line printed for a gamepad: "{} is {:?}" of name and power info
RenderGamepad(g) == <<"gamepad", g.name, g.power>>

\* the lines printed by a for loop over a collection, in its order
RenderGamepads(gs) == [i \in 1..Len(gs) |-> RenderGamepad(gs[i])]
RenderPeripherals(ps) == [i \in 1..Len(ps) |-> RenderPeripheral(ps[i])]

\* ---- state -----------------------------------------------------------------
VARIABLES
    target_os,     \* the platform the binary was built for
    pc,            \* position of main
    signals,       \* the signaling calls made so far, in order
    calls,         \* the collaborator calls made during bring-up, in order
    stdout,        \* lines printed during bring-up
    result,        \* the error main returned (NoError while running)
    exitCode,      \* -1 while the process runs, else its exit status
    gilrs,         \* the gamepads of the Gilrs handle (<<>> before init)
    central,       \* the adapter handle (<<>> before get_central)
    gilrsNew,      \* the answer Gilrs::new() gave
    managerNew,    \* the answer BleManager::new() gave
    listed,        \* the answer manager.adapters() gave
    connected,     \* the answer adapter.connect() gave
    scanStarted,   \* the answer central.start_scan() gave
    buffer,        \* gamepad events buffered by the driver, oldest first
    arrived,       \* number of events the driver has produced so far
    relayed,       \* events printed by the relay loop, in order
    iterStart,     \* the buffer as it was when the current iteration started
    iterArrived,   \* events that arrived during the current iteration's drain
    iterRelayed,   \* events relayed by the current iteration
    sleepArrived,  \* events that arrived during the current (or last) sleep
    afterQuietSleep, \* the current iteration follows a sleep with no arrival
    selected,      \* the adapters get_central took from the list, in order
    discovered,    \* the answer central.peripherals() gave
    pollSignals    \* the signals made when next_event was first called (<<>> before)

vars == <<target_os, pc, signals, calls, stdout, result, exitCode, gilrs, central,
          gilrsNew, managerNew, listed, connected, scanStarted,
          buffer, arrived, relayed, iterStart, iterArrived, iterRelayed,
          sleepArrived, afterQuietSleep, selected, discovered, pollSignals>>

histVars == <<selected, discovered, pollSignals>>
envVars == <<gilrsNew, managerNew, listed, connected, scanStarted>>
loopVars == <<buffer, arrived, relayed, iterStart, iterArrived, iterRelayed,
              sleepArrived, afterQuietSleep>>

Init ==
    /\ target_os \in Platforms
    /\ pc = "start"
    /\ signals = <<>>
    /\ calls = <<>>
    /\ stdout = <<>>
    /\ result = NoError
    /\ exitCode = -1
    /\ gilrs = <<>>
    /\ central = <<>>
    /\ gilrsNew = Pending
    /\ managerNew = Pending
    /\ listed = Pending
    /\ connected = Pending
    /\ scanStarted = Pending
    /\ buffer = <<>>
    /\ arrived = 0
    /\ relayed = <<>>
    /\ iterStart = <<>>
    /\ iterArrived = 0
    /\ iterRelayed = <<>>
    /\ sleepArrived = 0
    /\ afterQuietSleep = FALSE
    /\ selected = <<>>
    /\ discovered = Pending
    /\ pollSignals = <<>>

\* ---- signaling calls -------------------------------------------------------
update_signal_progress(sig) == Append(sig, "progress")
update_signal_success(sig) == Append(sig, "success")
update_signal_failure(sig) == Append(sig, "failure")

\* `?` on an Err in main: main returns the error, the process exits with
\* status 1; no signaling call is made on this path
Propagate(err) ==
    /\ result' = err
    /\ exitCode' = 1
    /\ pc' = "exit"
    /\ signals' = signals

\* ---- main, bring-up --------------------------------------------------------

\* a Start that makes no signaling call before the work begins
StartWithoutSignal ==
    /\ pc = "start"
    /\ pc' = "init_gamepads"
    /\ UNCHANGED <<histVars, target_os, signals, calls, stdout, result, exitCode,
                   gilrs, central, envVars, loopVars>>

\* line 69
Start ==
    /\ pc = "start"
    /\ signals' = update_signal_progress(signals)
    /\ pc' = "init_gamepads"
    /\ UNCHANGED <<histVars, target_os, calls, stdout, result, exitCode, gilrs, central,
                   envVars, loopVars>>

\* line 71: let mut gilrs = init_gamepads()?
InitGamepads ==
    /\ pc = "init_gamepads"
    /\ \E new \in GilrsNewResults :
         LET r == init_gamepads(new) IN
         /\ gilrsNew' = new
         /\ calls' = calls \o r.calls
         /\ IF r.res.st = "err"
            THEN /\ Propagate(r.res.err)
                 /\ gilrs' = gilrs
            ELSE /\ gilrs' = r.res.val
                 /\ pc' = "print_gamepads"
                 /\ UNCHANGED <<signals, result, exitCode>>
    /\ UNCHANGED <<histVars, target_os, stdout, central, managerNew, listed, connected,
                   scanStarted, loopVars>>

\* a PrintGamepads that also polls the driver for an event
PrintGamepadsPolling ==
    /\ pc = "print_gamepads"
    /\ stdout' = stdout \o RenderGamepads(gilrs)
    /\ calls' = Append(calls, "gamepads")
    /\ pollSignals' = IF pollSignals = <<>> THEN signals ELSE pollSignals
    /\ signals' = update_signal_progress(signals)
    /\ pc' = "new_manager"
    /\ UNCHANGED <<selected, discovered, target_os, result, exitCode, gilrs, central,
                   envVars, loopVars>>

\* lines 72-75: print every gamepad, then signal progress
PrintGamepads ==
    /\ pc = "print_gamepads"
    /\ stdout' = stdout \o RenderGamepads(gilrs)
    /\ calls' = Append(calls, "gamepads")
    /\ signals' = update_signal_progress(signals)
    /\ pc' = "new_manager"
    /\ UNCHANGED <<histVars, target_os, result, exitCode, gilrs, central, envVars, loopVars>>

\* a NewManager that does not propagate the error of the construction
NewManagerIgnoringError ==
    /\ pc = "new_manager"
    /\ \E new \in ManagerNewResults :
         /\ managerNew' = new
         /\ calls' = Append(calls, "BleManager::new")
         /\ signals' = update_signal_progress(signals)
         /\ pc' = "get_central"
         /\ UNCHANGED <<result, exitCode>>
    /\ UNCHANGED <<histVars, target_os, stdout, gilrs, central, gilrsNew, listed,
                   connected, scanStarted, loopVars>>

\* lines 78-81: BleManager::new().map_err(|e| e.compat())?, then progress
NewManager ==
    /\ pc = "new_manager"
    /\ \E new \in ManagerNewResults :
         /\ managerNew' = new
         /\ calls' = Append(calls, "BleManager::new")
         /\ IF new.st = "err"
            THEN Propagate(Compat(new.err))
            ELSE /\ signals' = update_signal_progress(signals)
                 /\ pc' = "get_central"
                 /\ UNCHANGED <<result, exitCode>>
    /\ UNCHANGED <<histVars, target_os, stdout, gilrs, central, gilrsNew, listed, connected,
                   scanStarted, loopVars>>

\* line 83: let central = get_central(&manager)? (lines 59-66)
GetCentral ==
    /\ pc = "get_central"
    /\ \E ls \in AdaptersResults :
       \E cn \in ConnectAnswers(ls.val) :
         LET r == get_central_linux(ls, cn) IN
         /\ listed' = ls
         /\ connected' = r.answer
         /\ selected' = r.selected
         /\ calls' = calls \o r.calls
         /\ IF r.res.st = "err"
            THEN /\ Propagate(r.res.err)
                 /\ central' = central
            ELSE /\ central' = r.res.val
                 /\ pc' = "start_scan"
                 /\ UNCHANGED <<signals, result, exitCode>>
    /\ UNCHANGED <<discovered, pollSignals, target_os, stdout, gilrs, gilrsNew,
                   managerNew, scanStarted, loopVars>>

\* a StartScan that goes straight to enumeration, without the window
StartScanNoWindow ==
    /\ pc = "start_scan"
    /\ \E sc \in ScanResults :
         /\ scanStarted' = sc
         /\ calls' = Append(calls, "start_scan")
         /\ IF sc.st = "err"
            THEN Propagate(WithContext(Compat(sc.err),
                                       "Failed to scan for new BLE peripherals"))
            ELSE /\ signals' = update_signal_progress(signals)
                 /\ pc' = "enumerate"
                 /\ UNCHANGED <<result, exitCode>>
    /\ UNCHANGED <<histVars, target_os, stdout, gilrs, central, gilrsNew, managerNew, listed,
                   connected, loopVars>>

\* a StartScan that does not propagate the error of start_scan
StartScanIgnoringError ==
    /\ pc = "start_scan"
    /\ \E sc \in ScanResults :
         /\ scanStarted' = sc
         /\ calls' = Append(calls, "start_scan")
         /\ signals' = update_signal_progress(signals)
         /\ pc' = "window"
         /\ UNCHANGED <<result, exitCode>>
    /\ UNCHANGED <<histVars, target_os, stdout, gilrs, central, gilrsNew, managerNew, listed,
                   connected, loopVars>>

\* lines 85-90: central.start_scan() with compat and context, then progress
StartScan ==
    /\ pc = "start_scan"
    /\ \E sc \in ScanResults :
         /\ scanStarted' = sc
         /\ calls' = Append(calls, "start_scan")
         /\ IF sc.st = "err"
            THEN Propagate(WithContext(Compat(sc.err),
                                       "Failed to scan for new BLE peripherals"))
            ELSE /\ signals' = update_signal_progress(signals)
                 /\ pc' = "window"
                 /\ UNCHANGED <<result, exitCode>>
    /\ UNCHANGED <<histVars, target_os, stdout, gilrs, central, gilrsNew, managerNew, listed,
                   connected, loopVars>>

\* a DiscoveryWindow without the progress signal after the wait
DiscoveryWindowOneSignal ==
    /\ pc = "window"
    /\ calls' = Append(calls, "sleep_2s")
    /\ pc' = "enumerate"
    /\ UNCHANGED <<histVars, target_os, signals, stdout, result, exitCode, gilrs, central,
                   envVars, loopVars>>

\* lines 91-92: sleep for the discovery window, then progress
DiscoveryWindow ==
    /\ pc = "window"
    /\ calls' = Append(calls, "sleep_2s")
    /\ signals' = update_signal_progress(signals)
    /\ pc' = "enumerate"
    /\ UNCHANGED <<histVars, target_os, stdout, result, exitCode, gilrs, central, envVars,
                   loopVars>>

\* an Enumerate that fails when no peripheral was discovered
EnumerateRequiresPeripheral ==
    /\ pc = "enumerate"
    /\ calls' = Append(calls, "peripherals")
    /\ \E ps \in SeqsUpTo(PeripheralRecords, MaxPeripherals) :
         /\ discovered' = Ok(ps)
         /\ stdout' = stdout \o RenderPeripherals(ps)
         /\ IF ps = <<>>
            THEN Propagate(MkError("MissingPeripheral", "", ""))
            ELSE /\ pc' = "success"
                 /\ UNCHANGED <<signals, result, exitCode>>
    /\ UNCHANGED <<selected, pollSignals, target_os, gilrs, central, envVars,
                   loopVars>>

\* an Enumerate that reads the peripheral set a second time
EnumerateReadsTwice ==
    /\ pc = "enumerate"
    /\ \E ps \in SeqsUpTo(PeripheralRecords, MaxPeripherals) :
         /\ discovered' = Ok(ps)
         /\ stdout' = stdout \o RenderPeripherals(ps)
    /\ calls' = calls \o <<"peripherals", "peripherals">>
    /\ pc' = "success"
    /\ UNCHANGED <<selected, pollSignals, target_os, signals, result, exitCode, gilrs,
                   central, envVars, loopVars>>

\* lines 94-100: print every peripheral the adapter has discovered
Enumerate ==
    /\ pc = "enumerate"
    /\ \E ps \in SeqsUpTo(PeripheralRecords, MaxPeripherals) :
         /\ discovered' = Ok(ps)
         /\ stdout' = stdout \o RenderPeripherals(ps)
    /\ calls' = Append(calls, "peripherals")
    /\ pc' = "success"
    /\ UNCHANGED <<selected, pollSignals, target_os, signals, result, exitCode, gilrs, central, envVars,
                   loopVars>>

\* line 102; the first iteration of the loop starts here
Success ==
    /\ pc = "success"
    /\ signals' = update_signal_success(signals)
    /\ pc' = "drain"
    /\ iterStart' = buffer
    /\ iterArrived' = 0
    /\ iterRelayed' = <<>>
    /\ afterQuietSleep' = FALSE
    /\ UNCHANGED <<histVars, target_os, calls, stdout, result, exitCode, gilrs, central,
                   envVars, buffer, arrived, relayed, sleepArrived>>

\* ---- main, event relay loop ------------------------------------------------

\* `if let` in place of `while let`: one event per iteration
NextEventOnce ==
    /\ pc = "drain"
    /\ IF buffer # <<>>
       THEN /\ relayed' = Append(relayed, Head(buffer))
            /\ iterRelayed' = Append(iterRelayed, Head(buffer))
            /\ buffer' = Tail(buffer)
       ELSE UNCHANGED <<relayed, iterRelayed, buffer>>
    /\ pc' = "sleep"
    /\ sleepArrived' = 0
    /\ pollSignals' = IF pollSignals = <<>> THEN signals ELSE pollSignals
    /\ UNCHANGED <<selected, discovered, target_os, signals, calls, stdout, result,
                   exitCode, gilrs, central, envVars, arrived, iterStart,
                   iterArrived, afterQuietSleep>>

\* a NextEvent that pulls two events and prints only the first
NextEventDropping ==
    /\ pc = "drain"
    /\ IF buffer # <<>>
       THEN /\ relayed' = Append(relayed, Head(buffer))
            /\ iterRelayed' = Append(iterRelayed, Head(buffer))
            /\ buffer' = IF Len(buffer) >= 2 THEN Tail(Tail(buffer)) ELSE Tail(buffer)
            /\ pc' = "drain"
            /\ sleepArrived' = sleepArrived
       ELSE /\ pc' = "sleep"
            /\ sleepArrived' = 0
            /\ UNCHANGED <<relayed, iterRelayed, buffer>>
    /\ pollSignals' = IF pollSignals = <<>> THEN signals ELSE pollSignals
    /\ UNCHANGED <<selected, discovered, target_os, signals, calls, stdout, result,
                   exitCode, gilrs, central, envVars, arrived, iterStart,
                   iterArrived, afterQuietSleep>>

\* lines 105-107: one gilrs.next_event(); Some(event) is printed and the
\* while loop continues, None ends the drain and the loop goes to sleep
NextEvent ==
    /\ pc = "drain"
    /\ IF buffer # <<>>
       THEN /\ relayed' = Append(relayed, Head(buffer))
            /\ iterRelayed' = Append(iterRelayed, Head(buffer))
            /\ buffer' = Tail(buffer)
            /\ pc' = "drain"
            /\ sleepArrived' = sleepArrived
       ELSE /\ pc' = "sleep"
            /\ sleepArrived' = 0
            /\ UNCHANGED <<relayed, iterRelayed, buffer>>
    /\ pollSignals' = IF pollSignals = <<>> THEN signals ELSE pollSignals
    /\ UNCHANGED <<selected, discovered, target_os, signals, calls, stdout, result,
                   exitCode, gilrs, central, envVars, arrived, iterStart,
                   iterArrived, afterQuietSleep>>

\* a Sleep that signals progress on every iteration
SleepSignalsProgress ==
    /\ pc = "sleep"
    /\ pc' = "drain"
    /\ signals' = update_signal_progress(signals)
    /\ iterStart' = buffer
    /\ iterArrived' = 0
    /\ iterRelayed' = <<>>
    /\ afterQuietSleep' = (sleepArrived = 0)
    /\ UNCHANGED <<histVars, target_os, calls, stdout, result, exitCode, gilrs,
                   central, envVars, buffer, arrived, relayed, sleepArrived>>

\* a Sleep after which main returns Ok(())
SleepThenReturn ==
    /\ pc = "sleep"
    /\ pc' = "exit"
    /\ exitCode' = 0
    /\ UNCHANGED <<histVars, target_os, signals, calls, stdout, result, gilrs,
                   central, envVars, loopVars>>

\* line 108: the 100 ms sleep ends and the next iteration starts
Sleep ==
    /\ pc = "sleep"
    /\ pc' = "drain"
    /\ iterStart' = buffer
    /\ iterArrived' = 0
    /\ iterRelayed' = <<>>
    /\ afterQuietSleep' = (sleepArrived = 0)
    /\ UNCHANGED <<histVars, target_os, signals, calls, stdout, result, exitCode, gilrs,
                   central, envVars, buffer, arrived, relayed, sleepArrived>>

\* the driver buffers an event of one of the gamepads (any time the Gilrs
\* handle exists)
EventArrives ==
    /\ gilrs # <<>>
    /\ pc # "exit"
    /\ arrived < MaxEvents
    /\ \E id \in 1..Len(gilrs), ev \in EventKinds :
         buffer' = Append(buffer, [id |-> id, event |-> ev, time |-> arrived + 1])
    /\ arrived' = arrived + 1
    /\ iterArrived' = IF pc = "drain" THEN iterArrived + 1 ELSE iterArrived
    /\ sleepArrived' = IF pc = "sleep" THEN sleepArrived + 1 ELSE sleepArrived
    /\ UNCHANGED <<histVars, target_os, pc, signals, calls, stdout, result, exitCode, gilrs,
                   central, envVars, relayed, iterStart, iterRelayed,
                   afterQuietSleep>>

Next ==
    \/ Start
    \/ InitGamepads
    \/ PrintGamepads
    \/ NewManager
    \/ GetCentral
    \/ StartScan
    \/ DiscoveryWindow
    \/ Enumerate
    \/ Success
    \/ NextEvent
    \/ Sleep
    \/ EventArrives

Spec == Init /\ [][Next]_vars

\* the steps of main (the single thread); the driver's EventArrives is not one
MainStep ==
    \/ Start
    \/ InitGamepads
    \/ PrintGamepads
    \/ NewManager
    \/ GetCentral
    \/ StartScan
    \/ DiscoveryWindow
    \/ Enumerate
    \/ Success
    \/ NextEvent
    \/ Sleep

\* main is the only thread and none of its steps blocks for ever: the calls
\* return and both sleeps are finite
FairSpec == Init /\ [][Next]_vars /\ WF_vars(MainStep)

\* ---- properties ------------------------------------------------------------

IsPrefix(s, t) == Len(s) <= Len(t) /\ \A i \in 1..Len(s) : s[i] = t[i]
Count(s, x) == Cardinality({i \in 1..Len(s) : s[i] = x})
Called(op) == \E i \in 1..Len(calls) : calls[i] = op
InRelayLoop == pc \in {"drain", "sleep"}

\* some bring-up operation has failed
BringUpFailed ==
    \/ gilrsNew.st = "err"
    \/ gilrsNew.st = "ok" /\ gilrsNew.val = <<>>
    \/ managerNew.st = "err"
    \/ listed.st = "err"
    \/ listed.st = "ok" /\ listed.val = <<>>
    \/ connected.st = "err"
    \/ scanStarted.st = "err"

SuccessfulRunSignals ==
    <<"progress", "progress", "progress", "progress", "progress", "success">>

\* C1: a run in which no bring-up operation fails emits exactly five progress
\* signals followed by one success signal and no failure signal; while such a
\* run is still in bring-up its signals are a prefix of that sequence.
C1_SuccessfulRunSignals ==
    /\ ~BringUpFailed => IsPrefix(signals, SuccessfulRunSignals)
    /\ (~BringUpFailed /\ scanStarted.st = "ok" /\ InRelayLoop)
           => signals = SuccessfulRunSignals

C1_Witness ==
    /\ pc = "sleep"
    /\ ~BringUpFailed
    /\ scanStarted.st = "ok"
    /\ signals = SuccessfulRunSignals

\* C2: a run in which a bring-up step fails emits exactly one failure signal
\* and no success signal before the process terminates with the error.
C2_OneFailureSignal ==
    pc = "exit" => Count(signals, "failure") = 1 /\ Count(signals, "success") = 0

\* C3: From<gilrs::Error> maps NotImplemented to UsbNotSupportedError,
\* InvalidAxisToBtn to UsbDeviceInitializationError and Other(e) to
\* UsbInitializationError carrying e; it never yields MissingGamepad or
\* MissingBleAdapter.
C3_FromGilrsError ==
    gilrsNew.st = "err" =>
        /\ gilrsNew.err.kind = "NotImplemented"
               => result = MkError("UsbNotSupportedError", "", "")
        /\ gilrsNew.err.kind = "InvalidAxisToBtn"
               => result = MkError("UsbDeviceInitializationError", "", "")
        /\ gilrsNew.err.kind = "Other"
               => result = MkError("UsbInitializationError", gilrsNew.err.cause, "")
        /\ result.kind \notin {"None", "MissingGamepad", "MissingBleAdapter"}

C3_Witness ==
    /\ gilrsNew.st = "err"
    /\ gilrsNew.err = MkError("Other", "io error", "")
    /\ result = MkError("UsbInitializationError", "io error", "")

\* C4: init_gamepads returns Ok only when Gilrs::new succeeded with at least
\* one gamepad; with zero gamepads it fails with MissingGamepad; when
\* Gilrs::new fails it returns the mapped error without counting the devices.
C4_InitGamepads ==
    /\ (gilrsNew.st # "pending" /\ ~(pc = "exit" /\ ~Called("gamepads")))
           => gilrsNew.st = "ok" /\ Len(gilrsNew.val) >= 1 /\ gilrs = gilrsNew.val
    /\ (gilrsNew.st = "ok" /\ Len(gilrsNew.val) = 0)
           => /\ pc = "exit"
              /\ result = MkError("MissingGamepad", "", "")
              /\ calls = <<"Gilrs::new", "gamepads.count">>
    /\ gilrsNew.st = "err"
           => /\ pc = "exit"
              /\ result.kind \in {"UsbNotSupportedError", "UsbDeviceInitializationError",
                                  "UsbInitializationError"}
              /\ calls = <<"Gilrs::new">>

C4_Witness ==
    /\ gilrsNew = Ok(<<>>)
    /\ result.kind = "MissingGamepad"
    /\ pc = "exit"

\* C6: on linux, a failing connect on the first of a non-empty adapter list
\* and a failing adapter listing both give a wrapped-cause error carrying the
\* cause, never MissingBleAdapter.
C6_LinuxWrappedCause ==
    target_os = "linux" =>
        /\ connected.st = "err"
               => /\ Len(listed.val) >= 1
                  /\ pc = "exit"
                  /\ result = MkError("Compat", connected.err.cause, "")
        /\ listed.st = "err"
               => /\ pc = "exit"
                  /\ result = MkError("Compat", listed.err.cause, "")

C6_Witness ==
    /\ target_os = "linux"
    /\ Len(listed.val) = 1
    /\ connected.st = "err"
    /\ result.kind = "Compat"
    /\ pc = "exit"

\* C7: an iteration of the relay loop during which no event arrives relays
\* exactly the events buffered at its start before it sleeps, and an iteration
\* that follows a sleep without arrivals, and has none itself, relays nothing.
C7_DrainThenSleep ==
    pc = "sleep" =>
        /\ iterArrived = 0 => iterRelayed = iterStart
        /\ (afterQuietSleep /\ iterArrived = 0) => iterRelayed = <<>>

C7_Witness ==
    /\ pc = "sleep"
    /\ Len(iterStart) >= 2
    /\ iterArrived = 0
    /\ iterRelayed = iterStart

BringUpCalls ==
    <<"Gilrs::new", "gamepads.count", "gamepads", "BleManager::new", "adapters",
      "connect", "start_scan", "sleep_2s", "peripherals">>

\* C8: the bring-up steps happen in the order gamepad init, manager
\* construction, get_central, scan start, window wait, enumeration, success
\* signal; each only after its predecessor succeeded, none skipped or repeated.
C8_StrictOrder ==
    /\ IsPrefix(calls, BringUpCalls)
    /\ Called("BleManager::new") => gilrsNew.st = "ok" /\ gilrs # <<>>
    /\ Called("adapters") => managerNew.st = "ok"
    /\ Called("start_scan") => central # <<>> /\ listed.st = "ok"
    /\ Called("sleep_2s") => scanStarted.st = "ok"
    /\ Count(signals, "success") = 1
           => calls = BringUpCalls /\ signals[Len(signals)] = "success"
    /\ InRelayLoop => Count(signals, "success") = 1

C8_Witness ==
    /\ pc = "drain"
    /\ calls = BringUpCalls
    /\ connected.st = "ok"
    /\ signals[Len(signals)] = "success"

\* C9: a terminal signal (success or failure) is emitted at most once and
\* nothing is emitted after it; the relay loop emits no signal.
C9_SignalsMonotonic ==
    /\ [](\A i \in 1..Len(signals) :
              signals[i] \in {"success", "failure"} => i = Len(signals))
    /\ [][InRelayLoop => signals' = signals]_vars

C9_Witness ==
    /\ pc = "drain"
    /\ afterQuietSleep
    /\ relayed # <<>>
    /\ signals[Len(signals)] = "success"

\* C10: when a bring-up step fails no operation of a later step is invoked,
\* the relay loop is not entered and the process ends with status 1.
C10_FailFast ==
    /\ BringUpFailed <=> pc = "exit"
    /\ pc = "exit" <=> exitCode = 1
    /\ pc = "exit" <=> result # NoError
    /\ BringUpFailed =>
        /\ relayed = <<>>
        /\ ~Called("peripherals")
        /\ Count(signals, "success") = 0
        /\ (gilrsNew.st = "err" \/ gilrsNew.val = <<>>)
               => ~Called("gamepads") /\ ~Called("BleManager::new")
        /\ managerNew.st = "err" => calls[Len(calls)] = "BleManager::new"
        /\ (listed.st = "err" \/ (listed.st = "ok" /\ listed.val = <<>>))
               => calls[Len(calls)] = "adapters"
        /\ connected.st = "err" => calls[Len(calls)] = "connect"
        /\ scanStarted.st = "err" => calls[Len(calls)] = "start_scan"

C10_Witness ==
    /\ pc = "exit"
    /\ scanStarted.st = "err"
    /\ exitCode = 1
    /\ result.context = "Failed to scan for new BLE peripherals"

Last(s) == s[Len(s)]

\* get_central has failed
GetCentralFailed ==
    \/ listed.st = "err"
    \/ listed.st = "ok" /\ listed.val = <<>>
    \/ connected.st = "err"

\* C11: after the success signal the process never terminates on its own: the
\* relay loop is never left, no exit state is reached, and the loop keeps
\* alternating between draining and sleeping for ever.
C11_RelayLoopForever ==
    /\ [][InRelayLoop => (InRelayLoop' /\ exitCode' = -1)]_vars
    /\ [](InRelayLoop => <>(pc = "sleep"))
    /\ [](pc = "sleep" => <>(pc = "drain"))

C11_Witness ==
    /\ pc = "sleep"
    /\ afterQuietSleep
    /\ exitCode = -1
    /\ arrived = MaxEvents

\* C12: the third progress signal is emitted only after get_central has
\* succeeded; a run in which get_central fails has emitted exactly two
\* progress signals.
C12_ThirdProgressAfterAdapter ==
    /\ Count(signals, "progress") >= 3 => central # <<>>
    /\ GetCentralFailed => Count(signals, "progress") = 2

\* C13: Gilrs::new, BleManager::new, adapters, connect and start_scan are each
\* called at most once in a run, and only the first listed adapter is ever
\* selected or connected, also when its connect fails.
C13_NoRetry ==
    /\ \A op \in {"Gilrs::new", "BleManager::new", "adapters", "connect", "start_scan"} :
           Count(calls, op) <= 1
    /\ Len(selected) <= 1
    /\ selected # <<>> => selected[1] = listed.val[1]
    /\ central # <<>> => selected # <<>> /\ central = listed.val[1]
    /\ connected.st = "ok" => connected.val = listed.val[1]
    /\ connected.st = "err" => central = <<>> /\ pc = "exit"

C13_Witness ==
    /\ target_os = "linux"
    /\ Len(listed.val) = 2
    /\ connected.st = "err"
    /\ selected = <<listed.val[1]>>
    /\ Count(calls, "connect") = 1

\* C14: a progress signal is emitted before any bring-up call is made; a run
\* that fails in init_gamepads has emitted exactly one progress signal, and
\* the second one is emitted only after init_gamepads succeeded.
C14_FirstProgressBeforeWork ==
    /\ calls # <<>> => signals # <<>> /\ signals[1] = "progress"
    /\ (gilrsNew.st = "err" \/ gilrsNew = Ok(<<>>)) => signals = <<"progress">>
    /\ Count(signals, "progress") >= 2 => gilrsNew.st = "ok" /\ gilrs # <<>>
    /\ pc = "init_gamepads" => signals = <<"progress">>

C14_Witness ==
    /\ gilrsNew = Err(MkError("InvalidAxisToBtn", "", ""))
    /\ pc = "exit"
    /\ signals = <<"progress">>

\* C15: whatever number of peripherals the adapter reports, zero included,
\* the run does not fail: it goes on to the success signal and the relay loop.
C15_ZeroPeripheralsIsSuccess ==
    discovered.st = "ok" =>
        /\ pc \in {"success", "drain", "sleep"}
        /\ exitCode = -1
        /\ result = NoError
        /\ pc # "success" => Last(signals) = "success"

C15_Witness ==
    /\ discovered = Ok(<<>>)
    /\ pc = "drain"
    /\ Last(signals) = "success"

\* C16: from every non-terminal state of the sequence (Start, GamepadsReady,
\* ManagerReady, AdapterReady, ScanStarted, WindowElapsed, Enumerated) some
\* execution fails instead of advancing.
C16_FailedFromEveryState ==
    pc \in {"init_gamepads", "new_manager", "get_central", "start_scan",
            "window", "enumerate", "success"}
        => ENABLED (Next /\ pc' = "exit")

\* C16 (amended): from Start, GamepadsReady, ManagerReady and AdapterReady
\* some execution fails instead of advancing; from ScanStarted, WindowElapsed
\* and Enumerated none does.
C16_FailedFromFallibleStates ==
    /\ pc \in {"init_gamepads", "new_manager", "get_central", "start_scan"}
           => ENABLED (Next /\ pc' = "exit")
    /\ pc \in {"window", "enumerate", "success"}
           => ~ENABLED (Next /\ pc' = "exit")

C16_Witness ==
    /\ pc = "enumerate"
    /\ scanStarted.st = "ok"
    /\ exitCode = -1

\* C17: the peripheral set is read exactly once, after start_scan succeeded
\* and the discovery window elapsed (five progress signals made), and never
\* during the relay loop.
C17_PeripheralsReadOnce ==
    /\ [](/\ Count(calls, "peripherals") <= 1
          /\ Called("peripherals")
                => /\ scanStarted.st = "ok"
                   /\ Called("sleep_2s")
                   /\ Count(signals, "progress") = 5
          /\ InRelayLoop => Count(calls, "peripherals") = 1)
    /\ [][InRelayLoop => calls' = calls]_vars

C17_Witness ==
    /\ pc = "sleep"
    /\ Count(calls, "peripherals") = 1
    /\ Len(discovered.val) = 1
    /\ relayed # <<>>

\* C18: next_event is not called during bring-up: its first call comes after
\* the success signal, so every relayed event was pulled after success.
C18_NoPollBeforeSuccess ==
    /\ ~Called("next_event")
    /\ pollSignals # <<>> => Last(pollSignals) = "success"
    /\ relayed # <<>> => pollSignals # <<>>
    /\ ~InRelayLoop => pollSignals = <<>> /\ relayed = <<>>

C18_Witness ==
    /\ pc = "drain"
    /\ Len(relayed) = 1
    /\ iterStart # <<>>
    /\ ~afterQuietSleep
    /\ pollSignals = SuccessfulRunSignals

\* C19: every discovered peripheral is printed with its address and with its
\* name, the empty string when the name is absent; an absent name does not
\* fail the run.
C19_AbsentNameIsEmpty ==
    discovered.st = "ok" =>
        LET ps == discovered.val
            off == Len(stdout) - Len(ps)
        IN  /\ off >= 0
            /\ \A i \in 1..Len(ps) :
                 /\ stdout[off + i][1] = "peripheral"
                 /\ stdout[off + i][3] = ps[i].address
                 /\ stdout[off + i][2] =
                        IF ps[i].local_name = <<>> THEN "" ELSE ps[i].local_name[1]
            /\ result = NoError
            /\ pc # "exit"

C19_Witness ==
    /\ discovered.st = "ok"
    /\ Len(discovered.val) = 1
    /\ discovered.val[1].local_name = <<>>
    /\ Last(stdout) = <<"peripheral", "", "AA:01">>

\* C20: the events relayed followed by the events still buffered are exactly
\* the events the driver produced, each once and in order; the loop goes to
\* sleep only from a next_event call that found the buffer empty.
C20_RelayExactlyOnceInOrder ==
    /\ [](LET all == relayed \o buffer IN
          /\ Len(all) = arrived
          /\ \A i \in 1..Len(all) : all[i].time = i)
    /\ [][(pc' = "sleep" /\ pc # "sleep")
              => (buffer = <<>> /\ buffer' = <<>> /\ relayed' = relayed)]_vars

C20_Witness ==
    /\ pc = "sleep"
    /\ Len(relayed) = 2
    /\ relayed[1].time = 1
    /\ relayed[2].time = 2
====
